---- MODULE Spec2Model ----
(***************************************************************************)
(* Model of the FLAME-style UI generator service (src/main.py): design     *)
(* generation (palette inference, style-profile override, section          *)
(* composition), the static and react exporters, and style analysis.       *)
(*                                                                         *)
(* Python strings are TLA+ strings; TLC evaluates Len, \o and SubSeq on    *)
(* them, so substring tests, lower(), split() and strip() are computed     *)
(* character by character.  Optional[T] is a sequence of length <= 1:      *)
(* None is << >> and a present value v is << v >>.  The typographic dash    *)
(* and hyphens of the hero copy are written in ASCII.                      *)
(***************************************************************************)
EXTENDS Integers, Sequences, FiniteSets, TLC

VARIABLES
    pc,             \* per request slot: where its handler stands
    prompt,         \* req.prompt
    style_profile,  \* req.style_profile, the override token ("" when absent)
    profile,        \* generate(): the parsed Optional[StyleProfile]
    palette,        \* build_design(): the palette dict of this call
    sections,       \* build_design(): the composed section list
    design,         \* the GeneratedDesign returned, or posted by the caller
    archive,        \* the zip entries written by an exporter, in order
    file,           \* /api/style/analyze: the decoded upload, None without one
    text,           \* /api/style/analyze: the text form field, None without one
    response,       \* /api/style/analyze: the response, None while pending
    apc             \* /api/style/analyze: where the handler stands

vars ==
    << pc, prompt, style_profile, profile, palette, sections, design, archive,
       file, text, response, apc >>

(***************************************************************************)
(* Bounds of the model.                                                    *)
(***************************************************************************)
\* number of request slots served concurrently
NReq == 2
\* a prompt is the concatenation of at most MaxFrags fragments
MaxFrags == 2
\* an analysed content is the concatenation of at most MaxParts fragments
MaxParts == 2
\* a caller-supplied design holds at most MaxSections sections
MaxSections == 2

Reqs == 1 .. NReq

None == << >>
Some(v) == << v >>
IsNone(o) == o = << >>
Get(o) == o[1]

(***************************************************************************)
(* Python str primitives.                                                  *)
(***************************************************************************)
Char(s, i) == SubSeq(s, i, i)

UpperLetters == "ABCDEFGHIJKLMNOPQRSTUVWXYZ"
LowerLetters == "abcdefghijklmnopqrstuvwxyz"

LowerChar(c) ==
    IF \E i \in 1 .. 26 : Char(UpperLetters, i) = c
    THEN Char(LowerLetters, CHOOSE i \in 1 .. 26 : Char(UpperLetters, i) = c)
    ELSE c

RECURSIVE lower(_)
\* str.lower()
lower(s) ==
    IF Len(s) = 0 THEN ""
    ELSE LowerChar(Char(s, 1)) \o lower(SubSeq(s, 2, Len(s)))

\* the positions at which k occurs in s
Occurrences(k, s) ==
    { i \in 1 .. (Len(s) - Len(k) + 1) : SubSeq(s, i, i + Len(k) - 1) = k }

\* k in s
Contains(k, s) == Occurrences(k, s) # {}

SetMin(S) == CHOOSE x \in S : \A y \in S : x <= y

RECURSIVE split(_, _)
\* s.split(sep): always at least one piece
split(s, sep) ==
    IF ~Contains(sep, s) THEN << s >>
    ELSE LET i == SetMin(Occurrences(sep, s))
         IN  << SubSeq(s, 1, i - 1) >> \o split(SubSeq(s, i + Len(sep), Len(s)), sep)

\* s.split(sep, 1) when sep occurs in s: the text before and after the first sep
split1(s, sep) ==
    LET i == SetMin(Occurrences(sep, s))
    IN  << SubSeq(s, 1, i - 1), SubSeq(s, i + Len(sep), Len(s)) >>

IsSpace(c) == c \in { " ", "\t", "\n", "\r" }

RECURSIVE lstrip(_)
lstrip(s) ==
    IF Len(s) > 0 /\ IsSpace(Char(s, 1)) THEN lstrip(SubSeq(s, 2, Len(s))) ELSE s

RECURSIVE rstrip(_)
rstrip(s) ==
    IF Len(s) > 0 /\ IsSpace(Char(s, Len(s))) THEN rstrip(SubSeq(s, 1, Len(s) - 1)) ELSE s

\* str.strip()
strip(s) == rstrip(lstrip(s))

(***************************************************************************)
(* Palette inference.                                                      *)
(***************************************************************************)
PaletteKeys == { "primary", "secondary", "background_from", "background_to", "neon_glow" }

Palette(p, s, bf, bt, g) ==
    [ primary |-> p, secondary |-> s, background_from |-> bf,
      background_to |-> bt, neon_glow |-> g ]

GreenPalette == Palette("#22c55e", "#14b8a6", "#0b1220", "#0b1020", "rgba(34,197,94,0.65)")
PurplePalette == Palette("#8b5cf6", "#06b6d4", "#0b0f1a", "#0b0d16", "rgba(139,92,246,0.65)")
BluePalette == Palette("#60a5fa", "#22d3ee", "#0b1220", "#0b0f1d", "rgba(96,165,250,0.65)")
DefaultPalette == Palette("#22d3ee", "#8b5cf6", "#0b0f1a", "#0b0d16", "rgba(34,211,238,0.65)")

\* mutant: the keyword groups tested in another order
infer_palette_blue_first(pr) ==
    LET p == lower(pr)
    IN  IF Contains("blue", p)
        THEN BluePalette
        ELSE IF Contains("purple", p) \/ Contains("ai", p) \/ Contains("neon", p)
        THEN PurplePalette
        ELSE IF Contains("green", p) \/ Contains("web3", p) \/ Contains("gaming", p)
        THEN GreenPalette
        ELSE DefaultPalette

infer_palette(pr) ==
    LET p == lower(pr)
    IN  IF Contains("green", p) \/ Contains("web3", p) \/ Contains("gaming", p)
        THEN GreenPalette
        ELSE IF Contains("purple", p) \/ Contains("ai", p) \/ Contains("neon", p)
        THEN PurplePalette
        ELSE IF Contains("blue", p)
        THEN BluePalette
        ELSE DefaultPalette

(***************************************************************************)
(* Section composition.                                                    *)
(***************************************************************************)
Section(kind, title, subtitle, content, bullets, accent) ==
    [ kind |-> kind, title |-> title, subtitle |-> subtitle, content |-> content,
      bullets |-> bullets, accent |-> accent ]

HeroSection(accent) ==
    Section("hero", Some("Futuristic Experience"),
            Some("Describe what you want - get a production-ready UI instantly."),
            Some("High-fidelity design with glassmorphism, neon accents, and smooth motion."),
            None, Some(accent))

StatsSection(accent) ==
    Section("stats", Some("Realtime Metrics"),
            Some("Key stats presented with clarity and glow."), None,
            Some(<< "Active Users", "Conversion", "Revenue", "Latency" >>), Some(accent))

FeaturesSection(accent) ==
    Section("features", Some("What You Get"),
            Some("Crafted components and beautiful defaults."), None,
            Some(<< "Neon-highlighted CTAs", "Glass cards with depth",
                    "Responsive grid layout", "Dark, cinematic theme" >>), Some(accent))

ShowcaseSection(accent) ==
    Section("showcase", Some("Visual Showcase"),
            Some("Abstract shapes and depth to match the FLAME aesthetic."),
            None, None, Some(accent))

CtaSection(accent) ==
    Section("cta", Some("Export Instantly"),
            Some("Download the full project as a zip and start building."),
            None, None, Some(accent))

\* mutant: the stats section appended after the features section
generate_sections_stats_late(pr, pal) ==
    LET p == lower(pr)
        base_accent == pal.primary
    IN  << HeroSection(base_accent) >>
        \o << FeaturesSection(base_accent) >>
        \o (IF Contains("dashboard", p) THEN << StatsSection(base_accent) >> ELSE << >>)
        \o << ShowcaseSection(base_accent) >>
        \o << CtaSection(base_accent) >>

generate_sections(pr, pal) ==
    LET p == lower(pr)
        base_accent == pal.primary
    IN  << HeroSection(base_accent) >>
        \o (IF Contains("dashboard", p) THEN << StatsSection(base_accent) >> ELSE << >>)
        \o << FeaturesSection(base_accent) >>
        \o << ShowcaseSection(base_accent) >>
        \o << CtaSection(base_accent) >>

(***************************************************************************)
(* Style profile and the override token of /api/generate.                  *)
(***************************************************************************)
ProfileFields ==
    { "name", "primary", "secondary", "background_from", "background_to",
      "neon_glow", "radius_scale", "shadow_style" }

\* StyleProfile(**kv): declared fields only (other keys are dropped), absent
\* fields take their defaults.  Every value is a str, so validation passes.
StyleProfile(kv) ==
    [ f \in ProfileFields |->
        IF f \in DOMAIN kv THEN Some(kv[f])
        ELSE IF f = "name" THEN Some("custom") ELSE None ]

RECURSIVE ParsePairs(_, _)
\* the loop over req.style_profile.split(","): kv after the pairs were read in order
ParsePairs(pairs, kv) ==
    IF pairs = << >> THEN kv
    ELSE LET pair == Head(pairs)
         IN  IF Contains(":", pair)
             THEN LET k == strip(split1(pair, ":")[1])
                      v == strip(split1(pair, ":")[2])
                  IN  ParsePairs(Tail(pairs),
                                 [ x \in (DOMAIN kv) \cup { k } |->
                                     IF x = k THEN v ELSE kv[x] ])
             ELSE ParsePairs(Tail(pairs), kv)

EmptyDict == [ x \in {} |-> "" ]

\* mutant: a pair without ":" is an error, and the error handler yields None
ParseStyleProfileStrict(token) ==
    IF token = "" THEN None
    ELSE IF \E n \in 1 .. Len(split(token, ",")) : ~Contains(":", split(token, ",")[n])
    THEN None
    ELSE Some(StyleProfile(ParsePairs(split(token, ","), EmptyDict)))

\* the profile that generate() hands to build_design: None for a falsy token
ParseStyleProfile(token) ==
    IF token = "" THEN None
    ELSE Some(StyleProfile(ParsePairs(split(token, ","), EmptyDict)))

\* a str value is truthy when it is non-empty; None is falsy
Truthy(o) == ~IsNone(o) /\ Get(o) # ""

\* a list value is truthy when it is non-empty; None is falsy
TruthyList(o) == ~IsNone(o) /\ Get(o) # << >>

\* mutant: the filter tests "v is not None" instead of the truth of v
ApplyProfileNotNone(pal, prof) ==
    IF IsNone(prof) THEN pal
    ELSE [ k \in DOMAIN pal |->
             IF k \in DOMAIN Get(prof) /\ ~IsNone(Get(prof)[k])
             THEN Get(Get(prof)[k]) ELSE pal[k] ]

\* palette.update({k: v for k, v in profile.model_dump().items() if k in palette and v})
ApplyProfile(pal, prof) ==
    IF IsNone(prof) THEN pal
    ELSE [ k \in DOMAIN pal |->
             IF k \in DOMAIN Get(prof) /\ Truthy(Get(prof)[k])
             THEN Get(Get(prof)[k]) ELSE pal[k] ]

SplineUrl == "https://prod.spline.design/4Zh-Q6DWWp5yPnQf/scene.splinecode"

GeneratedDesign(pr, pal, secs) ==
    [ prompt |-> pr, theme |-> "dark", primary |-> pal.primary,
      secondary |-> pal.secondary, background_from |-> pal.background_from,
      background_to |-> pal.background_to, neon_glow |-> pal.neon_glow,
      sections |-> secs, spline_url |-> Some(SplineUrl) ]

\* build_design run from start to end by one request alone
build_design(pr, prof) ==
    LET pal == ApplyProfile(infer_palette(pr), prof)
    IN  GeneratedDesign(pr, pal, generate_sections(pr, pal))

(***************************************************************************)
(* Exporters.  The fixed markup of the templates is abridged (class        *)
(* attributes and decorative elements are dropped); every interpolation    *)
(* point, and the element around it, is kept.                              *)
(***************************************************************************)
\* str(x) of an Optional[str], as an f-string or str() formats it
PyStr(o) == IF IsNone(o) THEN "None" ELSE Get(o)

\* positions of the sections of a kind, in list order
OfKind(secs, kind) == { i \in 1 .. Len(secs) : secs[i].kind = kind }

\* mutant: the last section of the kind is read
NextAttrLast(secs, kind, attr, fallback) ==
    IF OfKind(secs, kind) = {} THEN fallback
    ELSE PyStr(secs[CHOOSE i \in OfKind(secs, kind) :
                      \A j \in OfKind(secs, kind) : j <= i][attr])

\* next((s.<attr> for s in sections if s.kind == kind), fallback), formatted
NextAttr(secs, kind, attr, fallback) ==
    IF OfKind(secs, kind) = {} THEN fallback
    ELSE PyStr(secs[SetMin(OfKind(secs, kind))][attr])

\* next((s.bullets for s in sections if s.kind == "features" and s.bullets), [])
NextBullets(secs) ==
    LET with == { i \in OfKind(secs, "features") : TruthyList(secs[i].bullets) }
    IN  IF with = {} THEN << >> ELSE Get(secs[SetMin(with)].bullets)

RECURSIVE Join(_, _)
\* sep.join(parts)
Join(parts, sep) ==
    IF parts = << >> THEN ""
    ELSE IF Len(parts) = 1 THEN parts[1]
    ELSE parts[1] \o sep \o Join(Tail(parts), sep)

RECURSIVE replace(_, _, _)
\* s.replace(old, new): every non-overlapping occurrence, left to right
replace(s, old, new) ==
    IF ~Contains(old, s) THEN s
    ELSE LET i == SetMin(Occurrences(old, s))
         IN  SubSeq(s, 1, i - 1) \o new
             \o replace(SubSeq(s, i + Len(old), Len(s)), old, new)

\* mutant: --primary is given the secondary colour
StyleBlockSecondary(d) ==
    "<style>:root { --primary: " \o d.secondary \o "; --glow: " \o d.neon_glow
    \o "; } body { background: linear-gradient(180deg, " \o d.background_from
    \o ", " \o d.background_to \o "); }</style>"

StyleBlock(d) ==
    "<style>:root { --primary: " \o d.primary \o "; --glow: " \o d.neon_glow
    \o "; } body { background: linear-gradient(180deg, " \o d.background_from
    \o ", " \o d.background_to \o "); }</style>"

StaticItem(d, b) ==
    "<li><span style=\"background:" \o d.primary \o "\"></span><span class=\"text-slate-300\">" \o b \o "</span></li>"

make_index_html(d) ==
    LET hero_iframe == "<iframe src='" \o PyStr(d.spline_url) \o "'></iframe>"
        bullets == NextBullets(d.sections)
        features_list == Join([ i \in 1 .. Len(bullets) |-> StaticItem(d, bullets[i]) ], "")
    IN  "<!doctype html><html><head>" \o StyleBlock(d) \o "</head><body><main>"
        \o "<section><h1 class=\"text-5xl font-bold leading-tight mb-4\">"
        \o NextAttr(d.sections, "hero", "title", "Your Vision, Rendered")
        \o "</h1><p class=\"text-slate-300 mb-6\">" \o NextAttr(d.sections, "hero", "subtitle", "")
        \o "</p><div>" \o hero_iframe \o "</div></section>"
        \o "<section><h3 class=\"text-xl mb-4\">"
        \o NextAttr(d.sections, "features", "title", "Features")
        \o "</h3><ul class=\"space-y-3\">" \o features_list \o "</ul></section>"
        \o "<section><h3 class=\"text-2xl font-semibold mb-2\">"
        \o NextAttr(d.sections, "cta", "title", "Export Instantly")
        \o "</h3><p class=\"text-slate-300\">" \o NextAttr(d.sections, "cta", "subtitle", "")
        \o "</p></section></main></body></html>"

Entry(name, data) == [ name |-> name, data |-> data ]

StaticReadme ==
    "Generated UI package. Open index.html in a modern browser. Tailwind loaded via CDN."

build_zip_static(d) ==
    << Entry("index.html", make_index_html(d)), Entry("README.md", StaticReadme) >>

\* str(x).replace("'", "\\'")
JsEscape(str) == replace(str, "'", "\\'")

ReactItem(b) ==
    "React.createElement('li', null, React.createElement('span', { style: { background: '__PRIMARY__' } }), React.createElement('span', { className: 'text-slate-300' }, '"
    \o JsEscape(b) \o "'))"

AppJsTemplate ==
    "export default function App() { return (React.createElement('div', null, "
    \o "React.createElement('a', { style: { background: '__PRIMARY__' } }, 'Get Started'), "
    \o "React.createElement('h1', { className: 'text-5xl font-bold leading-tight mb-4' }, '__TITLE__'), "
    \o "React.createElement('p', { className: 'text-slate-300 mb-6' }, '__SUBTITLE__'), "
    \o "React.createElement('h3', { className: 'text-xl mb-4' }, '__FEATURES_TITLE__'), "
    \o "React.createElement('ul', { className: 'space-y-3' },\n              __BULLETS__\n            ), "
    \o "React.createElement('h3', { className: 'text-2xl font-semibold mb-2' }, 'Export Instantly'), "
    \o "React.createElement('p', { className: 'text-slate-300' }, ''), "
    \o "React.createElement('a', { style: { background: '__PRIMARY__' } }, 'Download'))) }"

MainJs == "import App from './App.js' ReactDOM.createRoot(document.getElementById('root')).render(React.createElement(App))"

ReactReadme ==
    "React export using ESM imports and Tailwind CDN. Open index.html with a local server (due to module imports)."

ReactIndexHtml(d) ==
    "<!doctype html><html><head>" \o StyleBlock(d)
    \o "</head><body><div id='root'></div><script type='module' src='/main.js'></script></body></html>"

ReactAppJs(d) ==
    LET title == NextAttr(d.sections, "hero", "title", "Your Vision, Rendered")
        subtitle == NextAttr(d.sections, "hero", "subtitle", "")
        features_title == NextAttr(d.sections, "features", "title", "Features")
        bullets == NextBullets(d.sections)
        bullets_js == Join([ i \in 1 .. Len(bullets) |-> ReactItem(bullets[i]) ], "\n              ")
    IN  replace(
          replace(
            replace(
              replace(
                replace(AppJsTemplate, "__TITLE__", JsEscape(title)),
                "__SUBTITLE__", JsEscape(subtitle)),
              "__FEATURES_TITLE__", JsEscape(features_title)),
            "__BULLETS__", bullets_js),
          "__PRIMARY__", d.primary)

build_zip_react(d) ==
    << Entry("index.html", ReactIndexHtml(d)), Entry("main.js", MainJs),
       Entry("App.js", ReactAppJs(d)), Entry("README.md", ReactReadme) >>

(***************************************************************************)
(* Style analysis.                                                         *)
(***************************************************************************)
HexDigits == "0123456789abcdefABCDEF"
Digits == "0123456789"

\* s[i .. i+n-1] exists and consists of characters of the class
RunOf(s, i, n, class) ==
    /\ i + n - 1 <= Len(s)
    /\ \A j \in i .. (i + n - 1) : Contains(Char(s, j), class)

RECURSIVE FindHex(_, _)
\* re.findall(r"#(?:[0-9a-fA-F]{3}){1,2}", s), scanning from position i
FindHex(s, i) ==
    IF i > Len(s) THEN << >>
    ELSE IF Char(s, i) = "#" /\ RunOf(s, i + 1, 6, HexDigits)
    THEN << SubSeq(s, i, i + 6) >> \o FindHex(s, i + 7)
    ELSE IF Char(s, i) = "#" /\ RunOf(s, i + 1, 3, HexDigits)
    THEN << SubSeq(s, i, i + 3) >> \o FindHex(s, i + 4)
    ELSE FindHex(s, i + 1)

\* where a match of rgba?\([^\)]+\) that starts at i ends, or 0 when there is none
RgbaEnd(s, i) ==
    IF ~(i + 2 <= Len(s) /\ SubSeq(s, i, i + 2) = "rgb") THEN 0
    ELSE LET j == IF i + 3 <= Len(s) /\ Char(s, i + 3) = "a" THEN i + 4 ELSE i + 3
             closing == { k \in (j + 1) .. Len(s) : Char(s, k) = ")" }
         IN  IF ~(j <= Len(s) /\ Char(s, j) = "(") THEN 0
             ELSE IF closing = {} THEN 0
             ELSE IF SetMin(closing) = j + 1 THEN 0
             ELSE SetMin(closing)

RECURSIVE FindRgba(_, _)
\* re.findall(r"rgba?\([^\)]+\)", s), scanning from position i
FindRgba(s, i) ==
    IF i > Len(s) THEN << >>
    ELSE IF RgbaEnd(s, i) # 0
    THEN << SubSeq(s, i, RgbaEnd(s, i)) >> \o FindRgba(s, RgbaEnd(s, i) + 1)
    ELSE FindRgba(s, i + 1)

\* mutant: colors = rgba_colors + hex_colors
ExtractColorsRgbaFirst(content) == FindRgba(content, 1) \o FindHex(content, 1)

\* colors = hex_colors + rgba_colors
ExtractColors(content) == FindHex(content, 1) \o FindRgba(content, 1)

AccentColors == << "#22c55e", "#8b5cf6", "#22d3ee", "#60a5fa" >>

\* any(k in c.lower() for k in [...])
IsAccent(c) == \E n \in 1 .. Len(AccentColors) : Contains(AccentColors[n], lower(c))

\* mutant: the two default colours taken for one another
PickPrimaryOtherDefault(colors) ==
    LET accents == { i \in 1 .. Len(colors) : IsAccent(colors[i]) }
    IN  IF accents # {} THEN colors[SetMin(accents)]
        ELSE IF colors # << >> THEN colors[1]
        ELSE "#8b5cf6"

PickPrimary(colors) ==
    LET accents == { i \in 1 .. Len(colors) : IsAccent(colors[i]) }
    IN  IF accents # {} THEN colors[SetMin(accents)]
        ELSE IF colors # << >> THEN colors[1]
        ELSE "#22d3ee"

\* mutant: the first match that differs from colors[0] is taken
PickSecondaryDistinct(colors) ==
    LET other == { i \in 1 .. Len(colors) : colors[i] # colors[1] }
    IN  IF other # {} THEN colors[SetMin(other)] ELSE "#8b5cf6"

PickSecondary(colors) == IF Len(colors) > 1 THEN colors[2] ELSE "#8b5cf6"

RadiusScales == << "xs", "sm", "md", "lg", "xl" >>

radius_keywords ==
    [ xs |-> { "2px", "3px" }, sm |-> { "4px", "6px" }, md |-> { "8px", "10px" },
      lg |-> { "12px", "14px" }, xl |-> { "16px", "20px", "9999px", "999px", "1rem" } ]

RECURSIVE ScanRadius(_, _, _)
\* the loop over radius_keywords.items() from bucket n on, radius_scale being best
ScanRadius(content, n, best) ==
    IF n > Len(RadiusScales) THEN best
    ELSE ScanRadius(content, n + 1,
                    IF \E k \in radius_keywords[RadiusScales[n]] : Contains(k, content)
                    THEN RadiusScales[n] ELSE best)

\* mutant: the scan stops at the first bucket that has a keyword in the content
DetectRadiusFirstMatch(content) ==
    LET found == { n \in 1 .. Len(RadiusScales) :
                     \E k \in radius_keywords[RadiusScales[n]] : Contains(k, content) }
    IN  IF found = {} THEN "md" ELSE RadiusScales[SetMin(found)]

DetectRadius(content) == ScanRadius(content, 1, "md")

\* \s
IsWhite(c) == c \in { " ", "\t", "\n", "\r", "\f" }

\* a match of (0\s0\s[0-9]+px) starts at j
GlowAt(s, j) ==
    /\ j + 4 <= Len(s)
    /\ Char(s, j) = "0" /\ IsWhite(Char(s, j + 1))
    /\ Char(s, j + 2) = "0" /\ IsWhite(Char(s, j + 3))
    /\ \E n \in 1 .. (Len(s) - j - 3) :
          /\ RunOf(s, j + 4, n, Digits)
          /\ j + 4 + n + 1 <= Len(s)
          /\ SubSeq(s, j + 4 + n, j + 5 + n) = "px"

\* re.search(r"box-shadow:.*(0\s0\s[0-9]+px).*(inset)?", s); "." matches no newline
HasGlowShadow(s) ==
    \E i \in Occurrences("box-shadow:", s) :
        \E j \in (i + 11) .. Len(s) :
            /\ \A m \in (i + 11) .. (j - 1) : Char(s, m) # "\n"
            /\ GlowAt(s, j)

DetectShadow(content) == IF HasGlowShadow(content) THEN "neon" ELSE "soft"

AnalyzedProfile(content) ==
    [ f \in ProfileFields |->
        CASE f = "name" -> Some("analyzed")
          [] f = "primary" -> Some(PickPrimary(ExtractColors(content)))
          [] f = "secondary" -> Some(PickSecondary(ExtractColors(content)))
          [] f = "background_from" -> Some("#0b0f1a")
          [] f = "background_to" -> Some("#0b0d16")
          [] f = "neon_glow" -> Some("rgba(34,211,238,0.65)")
          [] f = "radius_scale" -> Some(DetectRadius(content))
          [] f = "shadow_style" -> Some(DetectShadow(content)) ]

AnalyzeNotes ==
    "Profile inferred from provided content. Use responsibly and ensure you have rights to analyze the input."

\* the handler of POST /api/style/analyze: upload is the decoded file (None when
\* no file was sent), txt the form field (None when absent)
style_analyze(upload, txt) ==
    IF ~IsNone(upload)
    THEN [ status |-> 200, profile |-> AnalyzedProfile(Get(upload)), notes |-> AnalyzeNotes ]
    ELSE IF Truthy(txt)
    THEN [ status |-> 200, profile |-> AnalyzedProfile(Get(txt)), notes |-> AnalyzeNotes ]
    ELSE [ status |-> 400, detail |-> "Provide a file or text for analysis" ]

(***************************************************************************)
(* Inputs.                                                                 *)
(***************************************************************************)
RECURSIVE Concat(_)
Concat(parts) == IF parts = << >> THEN "" ELSE Head(parts) \o Concat(Tail(parts))

\* the concatenations of at most n elements of frags
Texts(frags, n) ==
    { Concat(t) : t \in UNION { [ 1 .. m -> frags ] : m \in 0 .. n } }

PromptFrags ==
    { "green ", "Web3", "GAM", "ING", "purple", " AI app", "a neon AI dashboard",
      "Blue", "Dash", "board" }

Prompts == Texts(PromptFrags, MaxFrags)

Tokens ==
    { "", "foo", ",,,", "primary#nocolon",
      "primary:#ff0000,neon_glow:rgba(255,0,0,0.5)",
      " secondary : #00ff00 ,background_to:#000000",
      "primary:,background_from:#111111,primary:",
      "name:mine,radius_scale:lg,bogus:1",
      "neon_glow:a:b,primary:#111111,primary:#222222" }

\* the requests of the concurrent service
ConcPrompts == { "green AI app", "a neon AI dashboard", "hello" }
ConcTokens == { "", "primary:#ff0000", "secondary:#00ff00,primary:#123456" }

ContentParts ==
    { "#22C55E ", "color:#fff;", "#8b5cf6", "ff ", "rgba(1,2,3,0.5) ", "rgb(0,0,0)",
      "rgba(", ") ", "rgb(#60a5fa)", "border-radius: 4px; ", "16px", "2px ",
      "box-shadow: 0 0 40px ", "\n" }

Contents == Texts(ContentParts, MaxParts)

PostedSections ==
    { Section("hero", None, None, None, None, None),
      Section("hero", Some("Launch"), Some("Soon"), None, None, None),
      Section("hero", Some("it's here"), None, None, None, None),
      Section("features", None, None, None, None, None),
      Section("features", Some("Perks"), None, None, Some(<< >>), None),
      Section("features", Some("Perks"), None, None, Some(<< "Fast", "Rock'n'roll" >>), None),
      Section("features", Some("More"), None, None, Some(<< "Cheap" >>), None),
      Section("cta", Some("Buy now"), Some("Today"), None, None, None),
      Section("cta", None, None, None, None, None),
      Section("showcase", Some("Gallery"), None, None, None, None) }

SectionLists == UNION { [ 1 .. m -> PostedSections ] : m \in 0 .. MaxSections }

\* the designs a caller posts to an exporter
PostedDesigns ==
    { [ GeneratedDesign("posted", pal, secs) EXCEPT !.spline_url = None ] :
        pal \in { BluePalette }, secs \in SectionLists }

(***************************************************************************)
(* The service.                                                            *)
(***************************************************************************)
Init ==
    /\ pc = [ r \in Reqs |-> "idle" ]
    /\ prompt = [ r \in Reqs |-> "" ]
    /\ style_profile = [ r \in Reqs |-> "" ]
    /\ profile = [ r \in Reqs |-> None ]
    /\ palette = [ r \in Reqs |-> None ]
    /\ sections = [ r \in Reqs |-> << >> ]
    /\ design = [ r \in Reqs |-> None ]
    /\ archive = [ r \in Reqs |-> << >> ]
    /\ file = None
    /\ text = None
    /\ response = None
    /\ apc = "idle"

AnalyzeVars == << file, text, response, apc >>
LocalVars == << profile, palette, sections >>

\* POST /api/generate arrives with a prompt of P and an override token of T
Receive(r, P, T) ==
    /\ pc[r] = "idle"
    /\ \E p \in P, t \in T :
          /\ prompt' = [ prompt EXCEPT ![r] = p ]
          /\ style_profile' = [ style_profile EXCEPT ![r] = t ]
    /\ pc' = [ pc EXCEPT ![r] = "generate" ]
    /\ UNCHANGED << LocalVars, design, archive, AnalyzeVars >>

\* generate(): the override token is parsed, build_design is entered
generate(r) ==
    /\ pc[r] = "generate"
    /\ profile' = [ profile EXCEPT ![r] = ParseStyleProfile(style_profile[r]) ]
    /\ pc' = [ pc EXCEPT ![r] = "infer_palette" ]
    /\ UNCHANGED << prompt, style_profile, palette, sections, design, archive, AnalyzeVars >>

\* build_design(): palette = infer_palette(prompt), a dict of this call
InferPalette(r) ==
    /\ pc[r] = "infer_palette"
    /\ palette' = [ palette EXCEPT ![r] = Some(infer_palette(prompt[r])) ]
    /\ pc' = [ pc EXCEPT ![r] = "update" ]
    /\ UNCHANGED << prompt, style_profile, profile, sections, design, archive, AnalyzeVars >>

\* mutant: infer_palette hands every call the same dict per keyword group, so
\* the update shows in every call that holds the dict of that group
UpdatePaletteShared(r) ==
    /\ pc[r] = "update"
    /\ palette' =
          [ q \in Reqs |->
              IF q = r \/ (~IsNone(palette[q])
                             /\ infer_palette(prompt[q]) = infer_palette(prompt[r]))
              THEN Some(ApplyProfile(Get(palette[r]), profile[r]))
              ELSE palette[q] ]
    /\ pc' = [ pc EXCEPT ![r] = "generate_sections" ]
    /\ UNCHANGED << prompt, style_profile, profile, sections, design, archive, AnalyzeVars >>

\* build_design(): palette.update(...) on the dict of this call
UpdatePalette(r) ==
    /\ pc[r] = "update"
    /\ palette' = [ palette EXCEPT ![r] = Some(ApplyProfile(Get(palette[r]), profile[r])) ]
    /\ pc' = [ pc EXCEPT ![r] = "generate_sections" ]
    /\ UNCHANGED << prompt, style_profile, profile, sections, design, archive, AnalyzeVars >>

\* build_design(): sections = generate_sections(prompt, palette)
GenerateSections(r) ==
    /\ pc[r] = "generate_sections"
    /\ sections' = [ sections EXCEPT ![r] = generate_sections(prompt[r], Get(palette[r])) ]
    /\ pc' = [ pc EXCEPT ![r] = "return" ]
    /\ UNCHANGED << prompt, style_profile, profile, palette, design, archive, AnalyzeVars >>

\* build_design() returns the GeneratedDesign, which is the response
Return(r) ==
    /\ pc[r] = "return"
    /\ design' = [ design EXCEPT ![r] =
                     Some(GeneratedDesign(prompt[r], Get(palette[r]), sections[r])) ]
    /\ pc' = [ pc EXCEPT ![r] = "generated" ]
    /\ UNCHANGED << prompt, style_profile, LocalVars, archive, AnalyzeVars >>

\* the caller posts a design of its own to an exporter
Post(r) ==
    /\ pc[r] = "idle"
    /\ \E d \in PostedDesigns : design' = [ design EXCEPT ![r] = Some(d) ]
    /\ pc' = [ pc EXCEPT ![r] = "posted" ]
    /\ UNCHANGED << prompt, style_profile, LocalVars, archive, AnalyzeVars >>

\* POST /api/download with the design held by the caller
download(r) ==
    /\ pc[r] \in { "generated", "posted" }
    /\ archive' = [ archive EXCEPT ![r] = build_zip_static(Get(design[r])) ]
    /\ pc' = [ pc EXCEPT ![r] = "static" ]
    /\ UNCHANGED << prompt, style_profile, LocalVars, design, AnalyzeVars >>

\* POST /api/export/react with the design held by the caller
export_react(r) ==
    /\ pc[r] \in { "generated", "posted" }
    /\ archive' = [ archive EXCEPT ![r] = build_zip_react(Get(design[r])) ]
    /\ pc' = [ pc EXCEPT ![r] = "react" ]
    /\ UNCHANGED << prompt, style_profile, LocalVars, design, AnalyzeVars >>

\* the caller is done with the slot
Close(r) ==
    /\ pc[r] \in { "generated", "static", "react" }
    /\ pc' = [ pc EXCEPT ![r] = "idle" ]
    /\ prompt' = [ prompt EXCEPT ![r] = "" ]
    /\ style_profile' = [ style_profile EXCEPT ![r] = "" ]
    /\ profile' = [ profile EXCEPT ![r] = None ]
    /\ palette' = [ palette EXCEPT ![r] = None ]
    /\ sections' = [ sections EXCEPT ![r] = << >> ]
    /\ design' = [ design EXCEPT ![r] = None ]
    /\ archive' = [ archive EXCEPT ![r] = << >> ]
    /\ UNCHANGED AnalyzeVars

GenVars == << pc, prompt, style_profile, profile, palette, sections, design, archive >>

\* what POST /api/style/analyze is called with: an upload, a text field,
\* neither, or both
AnalyzeInputs ==
    { << Some(c), None >> : c \in Contents }
    \cup { << None, Some(c) >> : c \in Contents }
    \cup { << None, None >> }
    \cup { << Some(c), Some("color:#ffffff") >> : c \in { "", "#000" } }

Submit ==
    /\ apc = "idle"
    /\ \E in \in AnalyzeInputs :
          /\ file' = in[1]
          /\ text' = in[2]
    /\ response' = None
    /\ apc' = "style_analyze"
    /\ UNCHANGED GenVars

\* the handler of POST /api/style/analyze
StyleAnalyze ==
    /\ apc = "style_analyze"
    /\ response' = Some(style_analyze(file, text))
    /\ apc' = "responded"
    /\ UNCHANGED << file, text, GenVars >>

\* the caller has read the response
Done ==
    /\ apc = "responded"
    /\ file' = None
    /\ text' = None
    /\ response' = None
    /\ apc' = "idle"
    /\ UNCHANGED GenVars

\* one request of a single caller: generate, then the static export
Next ==
    \E r \in { 1 } :
        \/ Receive(r, Prompts, Tokens)
        \/ generate(r)
        \/ InferPalette(r)
        \/ UpdatePalette(r)
        \/ GenerateSections(r)
        \/ Return(r)
        \/ download(r)
        \/ Close(r)

Spec == Init /\ [][Next]_vars

\* requests served concurrently (sync handlers run in the thread pool)
NextConc ==
    \E r \in Reqs :
        \/ Receive(r, ConcPrompts, ConcTokens)
        \/ generate(r)
        \/ InferPalette(r)
        \/ UpdatePalette(r)
        \/ GenerateSections(r)
        \/ Return(r)
        \/ Close(r)

SpecConc == Init /\ [][NextConc]_vars

\* exports of caller-supplied designs
NextExport ==
    \E r \in { 1 } :
        \/ Post(r)
        \/ download(r)
        \/ export_react(r)
        \/ Close(r)

SpecExport == Init /\ [][NextExport]_vars

\* style analysis
NextAnalyze == Submit \/ StyleAnalyze \/ Done

SpecAnalyze == Init /\ [][NextAnalyze]_vars

(***************************************************************************)
(* Properties.                                                             *)
(***************************************************************************)
UpperOf(c) ==
    IF \E i \in 1 .. 26 : Char(LowerLetters, i) = c
    THEN Char(UpperLetters, CHOOSE i \in 1 .. 26 : Char(LowerLetters, i) = c)
    ELSE c

\* the lower-case word k occurs in s, each letter in either case
HasWord(k, s) ==
    \E i \in 1 .. (Len(s) - Len(k) + 1) :
        \A j \in 1 .. Len(k) :
            Char(s, i + j - 1) \in { Char(k, j), UpperOf(Char(k, j)) }

InGroup1(s) == HasWord("green", s) \/ HasWord("web3", s) \/ HasWord("gaming", s)
InGroup2(s) == HasWord("purple", s) \/ HasWord("ai", s) \/ HasWord("neon", s)
InGroup3(s) == HasWord("blue", s)

\* C1: the palette infer_palette returns is the group-1 palette whenever the
\* prompt holds "green", "web3" or "gaming" in any letter case, also when a
\* keyword of a later group occurs; the group-2 palette only without a group-1
\* keyword; the group-3 palette only without a group-1 or group-2 keyword; the
\* default palette only when no keyword occurs.
C1_FirstMatch ==
    \A r \in Reqs :
        pc[r] = "update" =>
            /\ InGroup1(prompt[r]) => Get(palette[r]) = GreenPalette
            /\ ~InGroup1(prompt[r]) /\ InGroup2(prompt[r]) =>
                  Get(palette[r]) = PurplePalette
            /\ ~InGroup1(prompt[r]) /\ ~InGroup2(prompt[r]) /\ InGroup3(prompt[r]) =>
                  Get(palette[r]) = BluePalette
            /\ ~InGroup1(prompt[r]) /\ ~InGroup2(prompt[r]) /\ ~InGroup3(prompt[r]) =>
                  Get(palette[r]) = DefaultPalette
            /\ Get(palette[r]).primary = "#22c55e" <=> InGroup1(prompt[r])

\* a prompt with a group-1 keyword in mixed case and a keyword of a later
\* group resolved to the group-1 palette
C1_Witness ==
    \E r \in Reqs :
        /\ pc[r] = "update"
        /\ HasWord("web3", prompt[r]) /\ ~Contains("web3", prompt[r])
        /\ (InGroup2(prompt[r]) \/ InGroup3(prompt[r]))
        /\ Get(palette[r]) = GreenPalette

\* C2: each palette field of the design built is the override's value when the
\* override has that field non-empty, and the value of the prompt's group
\* palette otherwise; no other override field changes it; the five fields are
\* non-empty.
C2_OverrideFrame ==
    \A r \in Reqs :
        pc[r] = "generated" =>
            \A k \in PaletteKeys :
                /\ Get(design[r])[k] # ""
                /\ Get(design[r])[k] =
                      IF ~IsNone(profile[r]) /\ ~IsNone(Get(profile[r])[k])
                         /\ Get(Get(profile[r])[k]) # ""
                      THEN Get(Get(profile[r])[k])
                      ELSE infer_palette(prompt[r])[k]

\* a design built under an override that has one palette field empty, one set,
\* and a non-palette field set
C2_Witness ==
    \E r \in Reqs :
        /\ pc[r] = "generated"
        /\ ~IsNone(profile[r])
        /\ Get(profile[r])["primary"] = Some("")
        /\ Get(profile[r])["background_from"] = Some("#111111")
        /\ Get(design[r]).background_from = "#111111"
        /\ Get(design[r]).primary = infer_palette(prompt[r]).primary

ExampleToken == "primary:#ff0000,neon_glow:rgba(255,0,0,0.5)"

\* C3: with the override token "primary:#ff0000,neon_glow:rgba(255,0,0,0.5)"
\* the design has primary "#ff0000" and neon_glow "rgba(255,0,0,0.5)", and the
\* three other palette fields of the prompt's group palette.
C3_ExampleToken ==
    \A r \in Reqs :
        pc[r] = "generated" /\ style_profile[r] = ExampleToken =>
            /\ Get(design[r]).primary = "#ff0000"
            /\ Get(design[r]).neon_glow = "rgba(255,0,0,0.5)"
            /\ \A k \in { "secondary", "background_from", "background_to" } :
                  Get(design[r])[k] = infer_palette(prompt[r])[k]

\* a token is malformed when it holds no key:value pair
Malformed(token) == ~Contains(":", token)

Parsed(r) == pc[r] \in { "infer_palette", "update", "generate_sections", "return", "generated" }

\* C4 as stated: a malformed override token parses to None.
C4_MalformedIsNone ==
    \A r \in Reqs :
        Parsed(r) /\ Malformed(style_profile[r]) => IsNone(profile[r])

\* C4, amended: a malformed override token parses, without an error, to None
\* when it is empty and otherwise to a StyleProfile with name "custom" and no
\* other field set; the design is the one built with no override.
C4_MalformedIsBlank ==
    \A r \in Reqs :
        Parsed(r) /\ Malformed(style_profile[r]) =>
            /\ style_profile[r] = "" => IsNone(profile[r])
            /\ style_profile[r] # "" =>
                  profile[r] =
                      Some([ f \in ProfileFields |->
                               IF f = "name" THEN Some("custom") ELSE None ])
            /\ pc[r] = "generated" =>
                  \A k \in PaletteKeys :
                      Get(design[r])[k] = infer_palette(prompt[r])[k]

\* a design generated from the malformed token "primary#nocolon"
C4_Witness ==
    \E r \in Reqs :
        /\ pc[r] = "generated"
        /\ style_profile[r] = "primary#nocolon"
        /\ ~IsNone(profile[r])

Kinds(secs) == [ i \in 1 .. Len(secs) |-> secs[i].kind ]

\* C5: the section kinds are hero, stats, features, showcase, cta when the
\* prompt holds "dashboard" in any letter case, and hero, features, showcase,
\* cta otherwise.
C5_SectionOrder ==
    \A r \in Reqs :
        pc[r] \in { "return", "generated" } =>
            Kinds(sections[r]) =
                IF HasWord("dashboard", prompt[r])
                THEN << "hero", "stats", "features", "showcase", "cta" >>
                ELSE << "hero", "features", "showcase", "cta" >>

\* a prompt with "Dashboard" in mixed case composed to five sections
C5_Witness ==
    \E r \in Reqs :
        /\ pc[r] = "generated"
        /\ HasWord("dashboard", prompt[r]) /\ ~Contains("dashboard", prompt[r])
        /\ Len(Get(design[r]).sections) = 5
        /\ Get(design[r]).sections[2].kind = "stats"

\* C6: the static export of a generated design has the entries index.html and
\* README.md, in this order, and index.html sets --primary to the design's
\* primary.
C6_StaticExport ==
    \A r \in Reqs :
        pc[r] = "static" =>
            /\ [ i \in 1 .. Len(archive[r]) |-> archive[r][i].name ] =
                  << "index.html", "README.md" >>
            /\ Contains("--primary: " \o Get(design[r]).primary \o ";",
                        archive[r][1].data)

\* the static export of a design whose primary came from an override
C6_Witness ==
    \E r \in Reqs :
        /\ pc[r] = "static"
        /\ Get(design[r]).primary = "#ff0000"
        /\ Get(design[r]).primary # Get(design[r]).secondary
        /\ Len(archive[r]) = 2

\* the content the handler analysed: the upload when there is one, else the text
AnalyzedContent == IF ~IsNone(file) THEN Get(file) ELSE Get(text)

Responded(status) == apc = "responded" /\ Get(response).status = status

ProfileOf(resp, f) == Get(Get(resp).profile[f])

\* C7 as stated: analysis of the text "" with no upload answers with the
\* default profile.
C7_EmptyTextDefaults ==
    apc = "responded" /\ IsNone(file) /\ text = Some("") =>
        /\ Get(response).status = 200
        /\ ProfileOf(response, "name") = "analyzed"
        /\ ProfileOf(response, "primary") = "#22d3ee"
        /\ ProfileOf(response, "secondary") = "#8b5cf6"
        /\ ProfileOf(response, "radius_scale") = "md"
        /\ ProfileOf(response, "shadow_style") = "soft"

\* C7, amended: analysis of empty content never fails when the content is an
\* empty upload, and answers with name "analyzed", primary "#22d3ee", secondary
\* "#8b5cf6", radius_scale "md" and shadow_style "soft"; the text "" with no
\* upload is answered with status 400, as a missing input.
C7_EmptyUploadDefaults ==
    /\ apc = "responded" /\ file = Some("") =>
          /\ Get(response).status = 200
          /\ ProfileOf(response, "name") = "analyzed"
          /\ ProfileOf(response, "primary") = "#22d3ee"
          /\ ProfileOf(response, "secondary") = "#8b5cf6"
          /\ ProfileOf(response, "radius_scale") = "md"
          /\ ProfileOf(response, "shadow_style") = "soft"
    /\ apc = "responded" /\ IsNone(file) /\ text = Some("") =>
          Get(response).status = 400

\* an empty upload was analysed
C7_Witness ==
    /\ Responded(200)
    /\ file = Some("") /\ IsNone(text)
    /\ ProfileOf(response, "primary") = "#22d3ee"

FirstPos(k, s) == SetMin(Occurrences(k, s))

Range(seq) == { seq[i] : i \in 1 .. Len(seq) }

AllowList == { "#22c55e", "#8b5cf6", "#22d3ee", "#60a5fa" }

Allowed(c) == lower(c) \in AllowList

\* C8 as stated: primary is the allow-listed colour literal that occurs first
\* in the content; without an allow-listed one, the colour literal (hex or
\* rgb/rgba) that occurs first in the content; without any colour, "#22d3ee".
C8_ContentOrder ==
    Responded(200) =>
        LET c == AnalyzedContent
            cols == Range(ExtractColors(c))
            allowed == { x \in cols : Allowed(x) }
            prim == ProfileOf(response, "primary")
        IN  IF allowed # {}
            THEN prim \in allowed /\ \A x \in allowed : FirstPos(prim, c) <= FirstPos(x, c)
            ELSE IF cols # {}
            THEN prim \in cols /\ \A x \in cols : FirstPos(prim, c) <= FirstPos(x, c)
            ELSE prim = "#22d3ee"

\* C8, amended: the matches are ordered with every hex literal first, in
\* content order, and the rgb/rgba expressions after them, in content order;
\* primary is the first hex literal that is allow-listed (letter case aside);
\* without one, the first hex literal; without any hex literal, the first
\* rgb/rgba expression; without any colour, "#22d3ee".
C8_HexBeforeRgba ==
    Responded(200) =>
        LET c == AnalyzedContent
            hex == FindHex(c, 1)
            rgba == FindRgba(c, 1)
            listed == { i \in 1 .. Len(hex) : Allowed(hex[i]) }
            prim == ProfileOf(response, "primary")
        IN  IF listed # {} THEN prim = hex[SetMin(listed)]
            ELSE IF hex # << >> THEN prim = hex[1]
            ELSE IF rgba # << >> THEN prim = rgba[1]
            ELSE prim = "#22d3ee"

\* a content whose first colour is an rgba expression, with a hex literal that
\* is not allow-listed after it, was analysed
C8_Witness ==
    /\ Responded(200)
    /\ FindHex(AnalyzedContent, 1) = << "#fff" >>
    /\ FindRgba(AnalyzedContent, 1) = << "rgba(1,2,3,0.5)" >>
    /\ FirstPos("rgba(1,2,3,0.5)", AnalyzedContent) < FirstPos("#fff", AnalyzedContent)
    /\ ProfileOf(response, "primary") = "#fff"

\* C9: whatever requests run interleaved, the design a request gets is the one
\* the same request gets when it runs alone.
C9_Isolation ==
    \A r \in Reqs :
        pc[r] = "generated" =>
            design[r] =
                Some(build_design(prompt[r], ParseStyleProfile(style_profile[r])))

\* a request got its design while another request of the same prompt, with
\* another override, stood between its palette update and its response
C9_Witness ==
    \E r, q \in Reqs :
        /\ r # q
        /\ pc[r] = "generated"
        /\ pc[q] \in { "generate_sections", "return" }
        /\ prompt[r] = prompt[q]
        /\ style_profile[r] # "" /\ style_profile[q] # ""
        /\ Get(design[r]).primary # Get(palette[q]).primary

\* the text between the first occurrence of open and the next close
Between(s, open, close) ==
    LET rest == SubSeq(s, FirstPos(open, s) + Len(open), Len(s))
    IN  SubSeq(rest, 1, FirstPos(close, rest) - 1)

Region(s, open, close) ==
    IF Contains(open, s) /\ Contains(close, SubSeq(s, FirstPos(open, s) + Len(open), Len(s)))
    THEN Some(Between(s, open, close)) ELSE None

StaticRegion(data, name) ==
    CASE name = "hero.title" ->
           Region(data, "<h1 class=\"text-5xl font-bold leading-tight mb-4\">", "</h1>")
      [] name = "hero.subtitle" ->
           Region(data, "<p class=\"text-slate-300 mb-6\">", "</p>")
      [] name = "features.title" ->
           Region(data, "<h3 class=\"text-xl mb-4\">", "</h3>")
      [] name = "features.bullets" ->
           Region(data, "<ul class=\"space-y-3\">", "</ul>")
      [] name = "cta.title" ->
           Region(data, "<h3 class=\"text-2xl font-semibold mb-2\">", "</h3>")
      [] name = "cta.subtitle" ->
           Region(data, "<p class=\"text-slate-300\">", "</p>")

ReactRegion(data, name) ==
    CASE name = "hero.title" ->
           Region(data, "React.createElement('h1', { className: 'text-5xl font-bold leading-tight mb-4' }, '", "'), ")
      [] name = "hero.subtitle" ->
           Region(data, "React.createElement('p', { className: 'text-slate-300 mb-6' }, '", "'), ")
      [] name = "features.title" ->
           Region(data, "React.createElement('h3', { className: 'text-xl mb-4' }, '", "'), ")
      [] name = "features.bullets" ->
           Region(data, "React.createElement('ul', { className: 'space-y-3' },\n              ", "\n            ), ")
      [] name = "cta.title" ->
           Region(data, "React.createElement('h3', { className: 'text-2xl font-semibold mb-2' }, '", "'), ")
      [] name = "cta.subtitle" ->
           Region(data, "React.createElement('p', { className: 'text-slate-300' }, '", "'), ")

\* the text of the first section of a kind, or the fallback without such a section
FirstText(d, kind, attr, fallback) ==
    IF \E i \in 1 .. Len(d.sections) : d.sections[i].kind = kind
    THEN LET i == CHOOSE i \in 1 .. Len(d.sections) :
                    /\ d.sections[i].kind = kind
                    /\ \A j \in 1 .. (i - 1) : d.sections[j].kind # kind
         IN  IF d.sections[i][attr] = None THEN "None" ELSE d.sections[i][attr][1]
    ELSE fallback

\* the bullets of the first features section, none without such a section
FirstBullets(d) ==
    IF \E i \in 1 .. Len(d.sections) : d.sections[i].kind = "features"
    THEN LET i == CHOOSE i \in 1 .. Len(d.sections) :
                    /\ d.sections[i].kind = "features"
                    /\ \A j \in 1 .. (i - 1) : d.sections[j].kind # "features"
         IN  IF d.sections[i].bullets = None THEN << >> ELSE d.sections[i].bullets[1]
    ELSE << >>

\* the bullets of the first features section that has bullets, none without one
FirstFilledBullets(d) ==
    IF \E i \in 1 .. Len(d.sections) :
          d.sections[i].kind = "features" /\ d.sections[i].bullets \notin { None, << << >> >> }
    THEN LET i == CHOOSE i \in 1 .. Len(d.sections) :
                    /\ d.sections[i].kind = "features"
                    /\ d.sections[i].bullets \notin { None, << << >> >> }
                    /\ \A j \in 1 .. (i - 1) :
                          \/ d.sections[j].kind # "features"
                          \/ d.sections[j].bullets \in { None, << << >> >> }
         IN  d.sections[i].bullets[1]
    ELSE << >>

StaticList(d, bullets) ==
    Join([ i \in 1 .. Len(bullets) |-> StaticItem(d, bullets[i]) ], "")

ReactList(d, bullets) ==
    replace(Join([ i \in 1 .. Len(bullets) |-> ReactItem(bullets[i]) ], "\n              "),
            "__PRIMARY__", d.primary)

RegionNames ==
    { "hero.title", "hero.subtitle", "features.title", "features.bullets",
      "cta.title", "cta.subtitle" }

\* the six texts a renderer shows, each read from the first section of its
\* kind, the fallback without such a section
TextsByFirstSection(d, quote(_), list(_, _)) ==
    [ n \in RegionNames |->
        CASE n = "hero.title" -> Some(quote(FirstText(d, "hero", "title", "Your Vision, Rendered")))
          [] n = "hero.subtitle" -> Some(quote(FirstText(d, "hero", "subtitle", "")))
          [] n = "features.title" -> Some(quote(FirstText(d, "features", "title", "Features")))
          [] n = "features.bullets" -> Some(list(d, FirstBullets(d)))
          [] n = "cta.title" -> Some(quote(FirstText(d, "cta", "title", "Export Instantly")))
          [] n = "cta.subtitle" -> Some(quote(FirstText(d, "cta", "subtitle", ""))) ]

Verbatim(str) == str

\* C10 as stated: in the static and in the react export, each of the six texts
\* is that of the first section of its kind, or the fallback when the design
\* has no section of the kind, and every region is there.
C10_FirstSection ==
    \A r \in Reqs :
        /\ pc[r] = "static" =>
              \A n \in RegionNames :
                  StaticRegion(archive[r][1].data, n) =
                      TextsByFirstSection(Get(design[r]), Verbatim, StaticList)[n]
        /\ pc[r] = "react" =>
              \A n \in RegionNames :
                  ReactRegion(archive[r][3].data, n) =
                      TextsByFirstSection(Get(design[r]), JsEscape, ReactList)[n]

\* C10, amended: for texts that hold no placeholder of the react template,
\* both renderers take the hero title, the hero subtitle and the features title
\* from the first section of the kind (an absent one reads "None"; the react
\* renderer escapes single quotes) and use the fallback exactly when the design
\* has no section of the kind; the bullets are those of the first features
\* section that has a non-empty bullet list, none without one; the static
\* renderer takes the cta title and subtitle from the first cta section, the
\* react renderer always shows "Export Instantly" and an empty subtitle; no
\* region is omitted.
C10_Rendered ==
    \A r \in Reqs :
        /\ pc[r] = "static" =>
              \A n \in RegionNames :
                  StaticRegion(archive[r][1].data, n) =
                      IF n = "features.bullets"
                      THEN Some(StaticList(Get(design[r]), FirstFilledBullets(Get(design[r]))))
                      ELSE TextsByFirstSection(Get(design[r]), Verbatim, StaticList)[n]
        /\ pc[r] = "react" =>
              \A n \in RegionNames :
                  ReactRegion(archive[r][3].data, n) =
                      CASE n = "features.bullets" ->
                             Some(ReactList(Get(design[r]), FirstFilledBullets(Get(design[r]))))
                        [] n = "cta.title" -> Some("Export Instantly")
                        [] n = "cta.subtitle" -> Some("")
                        [] OTHER ->
                             TextsByFirstSection(Get(design[r]), JsEscape, ReactList)[n]

\* the react export of a posted design with two hero sections and a text to escape
C10_Witness ==
    \E r \in Reqs :
        /\ pc[r] = "react"
        /\ Kinds(Get(design[r]).sections) = << "hero", "hero" >>
        /\ Get(design[r]).sections[1].title = Some("it's here")
        /\ Get(design[r]).sections[2].title = Some("Launch")
        /\ ReactRegion(archive[r][3].data, "hero.title") = Some("it\\'s here")

\* C11 as stated: secondary is the first colour match whose literal differs
\* from the first match, and "#8b5cf6" when the content has no two distinct
\* colour literals.
C11_SecondDistinct ==
    Responded(200) =>
        LET cols == ExtractColors(AnalyzedContent)
            other == { i \in 1 .. Len(cols) : cols[i] # cols[1] }
        IN  ProfileOf(response, "secondary") =
                IF other # {} THEN cols[SetMin(other)] ELSE "#8b5cf6"

\* C11, amended: secondary is the second colour match, the hex literals
\* counted first and the rgb/rgba expressions after them, whether or not it
\* differs from the first match, and "#8b5cf6" when the content has fewer than
\* two matches; a content that repeats one literal has that literal as
\* secondary.
C11_SecondMatch ==
    Responded(200) =>
        LET hex == FindHex(AnalyzedContent, 1)
            rgba == FindRgba(AnalyzedContent, 1)
        IN  ProfileOf(response, "secondary") =
                IF Len(hex) >= 2 THEN hex[2]
                ELSE IF Len(hex) = 1 /\ Len(rgba) >= 1 THEN rgba[1]
                ELSE IF Len(hex) = 0 /\ Len(rgba) >= 2 THEN rgba[2]
                ELSE "#8b5cf6"

\* a content that holds one colour literal twice, and no other, was analysed
C11_Witness ==
    /\ Responded(200)
    /\ ExtractColors(AnalyzedContent) = << "#fff", "#fff" >>
    /\ ProfileOf(response, "secondary") = "#fff"
    /\ ProfileOf(response, "primary") = "#fff"

\* the buckets, by their place in declaration order, that have a keyword in s
BucketsFound(s) ==
    { n \in 1 .. 5 :
        \E k \in radius_keywords[<< "xs", "sm", "md", "lg", "xl" >>[n]] :
            Occurrences(k, s) # {} }

\* C12: radius_scale is the last bucket, in the order xs, sm, md, lg, xl, that
\* has one of its keywords in the content, wherever the keywords stand, and
\* "md" when the content has no keyword of any bucket.
C12_LastBucket ==
    Responded(200) =>
        ProfileOf(response, "radius_scale") =
            IF BucketsFound(AnalyzedContent) = {} THEN "md"
            ELSE << "xs", "sm", "md", "lg", "xl" >>[
                     CHOOSE n \in BucketsFound(AnalyzedContent) :
                         \A m \in BucketsFound(AnalyzedContent) : m <= n ]

\* a content with a keyword of xl before a keyword of xs was analysed
C12_Witness ==
    /\ Responded(200)
    /\ { 1, 5 } \subseteq BucketsFound(AnalyzedContent)
    /\ FirstPos("16px", AnalyzedContent) < FirstPos("2px", AnalyzedContent)
    /\ ProfileOf(response, "radius_scale") = "xl"

====
